---- MODULE Spec2Model ----
(***************************************************************************)
(* A model of the Crunchbase scraper: the name matcher                     *)
(* (src/src/utils.py analyze_search_results), the record assembler         *)
(* (scrape_company_data), main of src/main.py (the credential check, the   *)
(* start of the browser, the mode prompt and both search loops), and the   *)
(* helpers detect_currency, parse_currency_amount, format_currency,        *)
(* get_funding_amount and get_field_by_svg called on their own.            *)
(*                                                                         *)
(* Text is a sequence of one-character strings.  An Optional value is a    *)
(* sequence of length at most one: None is <<>> and Some(v) is <<v>>.      *)
(***************************************************************************)
EXTENDS Integers, Sequences, FiniteSets, TLC

VARIABLES
    pc,             \* where the program is
    search_name,    \* analyze_search_results: the query
    dom,            \* the browser: what the rendered search page holds
    results,        \* analyze_search_results: get_search_results(driver)
    best_match,     \* analyze_search_results: Optional (name, url)
    best_similarity,\* analyze_search_results: the ratio <<2*M, T>> of best_match
    ret,            \* analyze_search_results: Optional returned (name, url)
    raised,         \* analyze_search_results ended by raising instead of returning
    inputs          \* how many times input() was called by the prompt loop

VARIABLES
    page,           \* the browser: what the rendered company page holds
    current_url,    \* the browser: driver.current_url
    company_data,   \* scrape_company_data: the record being assembled
    saved_url,      \* scrape_company_data: its local current_url (line 635)
    scrape_ret,     \* scrape_company_data: Optional returned record
    scrape_exc,     \* scrape_company_data: its except clause (line 652) ran
    navigated       \* the browser reached the '/company_financials' page

VARIABLES
    list_file,      \* company_list.txt: Optional sequence of lines
    company_list,   \* main: read_company_list()
    idx,            \* main: how many names the batch loop has taken
    companies,      \* main: the records scraped so far
    progress_file,  \* companies_progress.csv: Optional file
    final_file,     \* companies.csv: Optional file
    attempted,      \* the names handed to search_company, in order
    outcomes        \* how each finished company ended, in order

VARIABLES
    email,          \* main: os.getenv('CRUNCHBASE_EMAIL'), Optional text
    password,       \* main: os.getenv('CRUNCHBASE_PASSWORD'), Optional text
    driver,         \* the browser: "none", "running" or "quit"
    loaded,         \* driver.get has been called at least once
    mode,           \* main: the answer to the mode prompt, stripped
    asks            \* interactive mode: how many names the operator has typed

VARIABLES
    args,           \* a helper called on its own: Optional record of its arguments
    fn_ret          \* that call: Optional record of what it returned

matcherVars == <<search_name, dom, results, best_match, best_similarity, ret, raised, inputs>>
scrapeVars == <<page, current_url, company_data, saved_url, scrape_ret, scrape_exc, navigated>>
mainVars == <<list_file, company_list, idx, companies, progress_file, final_file,
              attempted, outcomes>>
startVars == <<email, password, driver, loaded, mode, asks>>
callVars == <<args, fn_ret>>
vars == <<pc, matcherVars, scrapeVars, mainVars, startVars, callVars>>

---------------------------------------------------------------------------
(* Bounds of the model *)

\* longest list of result links drawn from the full element set
MaxRich == 3
\* longest list of result links drawn from the two plain elements
MaxRaw == 6
\* how many answers the operator may type at one prompt
MaxInputs == 2
\* how many lines company_list.txt holds at most
MaxLines == 2
\* how many company names the operator types in interactive mode at most
MaxAsks == 1
\* longest text of symbol characters handed to detect_currency
MaxSymLen == 3
\* longest text that follows the currency symbol of an amount string
MaxBody == 3
\* the amounts handed to format_currency are 0..MaxBase times a scale
MaxBase == 1060
\* how many elements a path element has above it at most
MaxHops == 11

---------------------------------------------------------------------------
(* Optional values and text *)

None == <<>>
Some(v) == <<v>>

\* str.lower() on the characters of the model
LowerChar(c) ==
    CASE c = "A" -> "a" [] c = "B" -> "b" [] c = "S" -> "s" [] c = "Y" -> "y"
      [] c = "Q" -> "q" [] c = "U" -> "u" [] c = "I" -> "i" [] c = "T" -> "t"
      [] c = "N" -> "n" [] c = "K" -> "k" [] c = "O" -> "o" [] c = "W" -> "w"
      [] c = "F" -> "f" [] c = "E" -> "e"
      [] OTHER -> c
Lower(s) == [i \in 1..Len(s) |-> LowerChar(s[i])]

RECURSIVE LStrip(_)
LStrip(s) == IF s # <<>> /\ Head(s) = " " THEN LStrip(Tail(s)) ELSE s
RECURSIVE RStrip(_)
RStrip(s) == IF s # <<>> /\ s[Len(s)] = " " THEN RStrip(SubSeq(s, 1, Len(s) - 1)) ELSE s
\* str.strip()
Strip(s) == RStrip(LStrip(s))

---------------------------------------------------------------------------
(* difflib.SequenceMatcher(None, a, b).ratio(), as get_string_similarity   *)
(* uses it: no junk, and no autojunk below 200 characters.                 *)

\* the matching blocks a[i:i+k] == b[j:j+k] inside a[alo:ahi], b[blo:bhi]
MatchingBlocksIn(a, alo, ahi, b, blo, bhi) ==
    {m \in (alo..(ahi - 1)) \X (blo..(bhi - 1)) \X (1..(ahi - alo)) :
        /\ m[1] + m[3] <= ahi
        /\ m[2] + m[3] <= bhi
        /\ \A d \in 0..(m[3] - 1) : a[m[1] + d + 1] = b[m[2] + d + 1]}

\* find_longest_match: longest, then earliest in a, then earliest in b
FindLongestMatch(a, alo, ahi, b, blo, bhi) ==
    LET S == MatchingBlocksIn(a, alo, ahi, b, blo, bhi)
    IN  CHOOSE m \in S : \A n \in S :
            \/ m[3] > n[3]
            \/ m[3] = n[3] /\ m[1] < n[1]
            \/ m[3] = n[3] /\ m[1] = n[1] /\ m[2] <= n[2]

\* get_matching_blocks: the total size of the blocks found recursively
RECURSIVE MatchedSize(_, _, _, _, _, _)
MatchedSize(a, alo, ahi, b, blo, bhi) ==
    IF MatchingBlocksIn(a, alo, ahi, b, blo, bhi) = {} THEN 0
    ELSE LET m == FindLongestMatch(a, alo, ahi, b, blo, bhi)
             i == m[1]
             j == m[2]
             k == m[3]
         IN  k + (IF alo < i /\ blo < j THEN MatchedSize(a, alo, i, b, blo, j) ELSE 0)
               + (IF i + k < ahi /\ j + k < bhi
                    THEN MatchedSize(a, i + k, ahi, b, j + k, bhi) ELSE 0)

\* A ratio is kept exactly, as <<numerator, denominator>>, denominator > 0.
\* ratio(): 2.0 * matches / length, or 1.0 when both strings are empty
Ratio(a, b) ==
    IF Len(a) + Len(b) = 0 THEN <<1, 1>>
    ELSE <<2 * MatchedSize(a, 0, Len(a), b, 0, Len(b)), Len(a) + Len(b)>>

RatioGT(r, s) == r[1] * s[2] > s[1] * r[2]
RatioGE(r, s) == r[1] * s[2] >= s[1] * r[2]

\* get_string_similarity(a, b)
GetStringSimilarity(a, b) == Ratio(Lower(a), Lower(b))

\* NAME_SIMILARITY_THRESHOLD = 0.8
NAME_SIMILARITY_THRESHOLD == <<8, 10>>
\* best_similarity = 0
ZeroRatio == <<0, 1>>

---------------------------------------------------------------------------
(* get_search_results: the candidates of the rendered search page *)

\* results[:5]
ResultLimit == 5

\* one result link: keep (name, url) when the name span exists and both are truthy
LinkCandidate(link) ==
    IF ~link.span THEN None
    ELSE LET name == Strip(link.text)
         IN  IF name # <<>> /\ link.href # None /\ link.href[1] # ""
               THEN Some(<<name, link.href[1]>>)
               ELSE None

RECURSIVE CollectCandidates(_)
CollectCandidates(links) ==
    IF links = <<>> THEN <<>>
    ELSE LinkCandidate(Head(links)) \o CollectCandidates(Tail(links))

\* get_search_results(driver): [] when the results wrapper never appears
GetSearchResults(sp) ==
    IF ~sp.ok THEN <<>>
    ELSE CollectCandidates(SubSeq(sp.links, 1,
                                  IF Len(sp.links) < ResultLimit
                                    THEN Len(sp.links) ELSE ResultLimit))

---------------------------------------------------------------------------
(* analyze_search_results *)

\* if similarity > best_similarity
BetterThan_ge(similarity, best) == RatioGE(similarity, best)
BetterThan(similarity, best) == RatioGT(similarity, best)

\* the loop over results: <<best_match, best_similarity>> after the first n
RECURSIVE BestAfter(_, _, _)
BestAfter(res, query, n) ==
    IF n = 0 THEN <<None, ZeroRatio>>
    ELSE LET prev == BestAfter(res, query, n - 1)
             similarity == GetStringSimilarity(query, res[n][1])
         IN  IF BetterThan(similarity, prev[2])
               THEN <<Some(res[n]), similarity>>
               ELSE prev

\* if best_similarity >= NAME_SIMILARITY_THRESHOLD
AutoAccept_gt(best) == RatioGT(best, NAME_SIMILARITY_THRESHOLD)
AutoAccept(best) == RatioGE(best, NAME_SIMILARITY_THRESHOLD)

\* return name, url
AutoReturn_query(match, query) == Some(<<query, match[2]>>)
AutoReturn(match, query) == Some(match)

\* lines 147-173: up to the auto-accept, the no-match return or the first prompt
Analyze ==
    /\ pc = "analyze"
    /\ LET res == GetSearchResults(dom)
           best == BestAfter(res, search_name, Len(res))
       IN  /\ results' = res
           /\ IF res = <<>>
                THEN /\ best_match' = None
                     /\ best_similarity' = ZeroRatio
                     /\ ret' = None
                     /\ pc' = "matched"
                ELSE /\ best_match' = best[1]
                     /\ best_similarity' = best[2]
                     /\ IF best[1] = None
                          THEN ret' = None /\ pc' = "matched"
                          ELSE IF AutoAccept(best[2])
                                 THEN /\ ret' = AutoReturn(best[1][1], search_name)
                                      /\ pc' = "matched"
                                 ELSE ret' = None /\ pc' = "prompt"
    /\ UNCHANGED <<search_name, dom, raised, inputs>>

\* int(choice) on the answers of the model: Some(n), or None for ValueError
IsDigit(c) == c \in {"0", "1", "2", "3", "4", "5", "6", "7", "8", "9"}
DigitValue(c) ==
    CASE c = "0" -> 0 [] c = "1" -> 1 [] c = "2" -> 2 [] c = "3" -> 3 [] c = "4" -> 4
      [] c = "5" -> 5 [] c = "6" -> 6 [] c = "7" -> 7 [] c = "8" -> 8 [] c = "9" -> 9
RECURSIVE DigitsValue(_)
DigitsValue(s) ==
    IF s = <<>> THEN 0
    ELSE 10 * DigitsValue(SubSeq(s, 1, Len(s) - 1)) + DigitValue(s[Len(s)])
AllDigits(s) == s # <<>> /\ \A i \in 1..Len(s) : IsDigit(s[i])
ParseInt(s) ==
    LET t == Strip(s)
    IN  IF AllDigits(t) THEN Some(DigitsValue(t))
        ELSE IF Len(t) > 1 /\ t[1] = "-" /\ AllDigits(Tail(t)) THEN Some(0 - DigitsValue(Tail(t)))
        ELSE IF Len(t) > 1 /\ t[1] = "+" /\ AllDigits(Tail(t)) THEN Some(DigitsValue(Tail(t)))
        ELSE None

\* if 0 <= idx < len(results)
ValidIndex(k, n) == 0 <= k /\ k < n

\* what the operator may type at the prompt
Answers ==
    { <<"s">>, <<" ", "S", " ">>, <<"1">>, <<" ", "2">>, <<"0">>, <<"9">>,
      <<"-", "1">>, <<"x">>, <<>> }

\* lines 175-185: one turn of the prompt loop, the operator typing `typed`
Prompt(typed) ==
    /\ pc = "prompt"
    /\ inputs < MaxInputs
    /\ inputs' = inputs + 1
    /\ LET choice == Lower(Strip(typed))
           n == ParseInt(choice)
       IN  IF choice = <<"s">>
             THEN ret' = None /\ pc' = "matched"
             ELSE IF n # None /\ ValidIndex(n[1] - 1, Len(results))
                    THEN ret' = Some(results[n[1]]) /\ pc' = "matched"
                    ELSE ret' = ret /\ pc' = "prompt"
    /\ UNCHANGED <<search_name, dom, results, best_match, best_similarity, raised>>

\* input() raising EOFError: analyze_search_results does not catch it
PromptEOF ==
    /\ pc = "prompt"
    /\ inputs < MaxInputs
    /\ inputs' = inputs + 1
    /\ raised' = TRUE
    /\ pc' = "matched"
    /\ UNCHANGED <<search_name, dom, results, best_match, best_similarity, ret>>

---------------------------------------------------------------------------
(* CompanyData (src/src/models.py) and the extractors of a company page     *)

\* CompanyData(name=name): every other field defaults to None
CompanyData(name) ==
    [ name |-> name, about |-> None, quantum_general |-> None,
      quantum_computing |-> None, bis_list |-> None, qedc_list |-> None,
      total_funding_cny |-> None, total_funding_usd |-> None,
      funding_info |-> None, last_funding_type |-> None, location |-> None,
      employee_count |-> None, company_type |-> None, website |-> None,
      year_founded |-> None, ranking |-> None, acquisitions_count |-> None,
      investments_count |-> None, exits_count |-> None, stock_symbol |-> None,
      legal_name |-> None, operating_status |-> None, notes |-> None ]

\* Python truthiness of an Optional text: neither None nor ''
Truthy(v) == v # None /\ v[1] # <<>>

\* element.get_attribute('title') or element.text.strip()
TitleOrText(elem) == IF Truthy(elem.title) THEN elem.title[1] ELSE Strip(elem.text)

\* get_clean_company_name: the text nodes of h1.profile-name, stripped;
\* None when the lookup raises
GetCleanCompanyName(pg) ==
    IF pg.name = None THEN None ELSE Some(Strip(pg.name[1]))

\* get_company_description: the description text, stripped; None when not found
GetCompanyDescription(pg) ==
    IF pg.description = None THEN None ELSE Some(Strip(pg.description[1]))

\* get_field_by_svg(driver, SVG_PATHS[key]): the text of the list item that
\* holds the icon, or None
GetFieldBySvg(pg, key) == pg.svg[key]

\* get_numeric_field_by_label
GetNumericFieldByLabel(pg, label) ==
    IF pg.numeric[label] = None THEN None
    ELSE LET value == TitleOrText(pg.numeric[label][1])
         IN  IF value # <<>> /\ AllDigits(value) THEN Some(DigitsValue(value)) ELSE None

\* get_field_by_label: the title alone for 'Stock Symbol', title or text otherwise
GetFieldByLabel(pg, label) ==
    IF pg.labels[label] = None THEN None
    ELSE IF label = "Stock Symbol" THEN pg.labels[label][1].title
    ELSE Some(TitleOrText(pg.labels[label][1]))

\* get_funding_info: the text of the markup block, stripped; None when not found
GetFundingInfo(pg) ==
    IF pg.funding = None THEN None ELSE Some(Strip(pg.funding[1]))

---------------------------------------------------------------------------
(* scrape_company_data *)

\* lines 550-555
WithDescription_empty(cd, pg) ==
    [cd EXCEPT !.about = IF GetCompanyDescription(pg) = None THEN Some(<<>>)
                         ELSE GetCompanyDescription(pg)]
WithDescription(cd, pg) ==
    LET description == GetCompanyDescription(pg)
    IN  IF Truthy(description) THEN [cd EXCEPT !.about = description] ELSE cd

\* field_mapping: record field -> key of SVG_PATHS, in its order
FieldMapping ==
    << <<"location", "location">>, <<"employee_count", "employees">>,
       <<"company_type", "company_type">>, <<"website", "website">>,
       <<"ranking", "ranking">>, <<"last_funding_type", "funding_type">> >>

\* lines 570-578: the value stored for one icon field
IconValue(pg, field, value) ==
    IF field = "website"
      THEN IF pg.website_link.found THEN pg.website_link.href ELSE Some(value)
    ELSE IF field = "ranking"
      THEN IF AllDigits(value) THEN Some([int |-> DigitsValue(value)])
                               ELSE Some([str |-> value])
    ELSE Some(value)

\* lines 567-583: the first n entries of field_mapping
RECURSIVE WithIconFields(_, _, _)
WithIconFields(cd, pg, n) ==
    IF n = 0 THEN cd
    ELSE LET prev == WithIconFields(cd, pg, n - 1)
             field == FieldMapping[n][1]
             value == GetFieldBySvg(pg, FieldMapping[n][2])
         IN  IF Truthy(value)
               THEN [prev EXCEPT ![field] = IconValue(pg, field, value[1])]
               ELSE prev

\* numeric_fields: record field -> label
NumericFields ==
    << <<"acquisitions_count", "Acquisitions">>, <<"investments_count", "Investments">>,
       <<"exits_count", "Exits">> >>

\* lines 592-598
RECURSIVE WithNumericFields(_, _, _)
WithNumericFields(cd, pg, n) ==
    IF n = 0 THEN cd
    ELSE LET prev == WithNumericFields(cd, pg, n - 1)
             value == GetNumericFieldByLabel(pg, NumericFields[n][2])
         IN  IF value # None THEN [prev EXCEPT ![NumericFields[n][1]] = value] ELSE prev

\* label_fields: record field -> label
LabelFields ==
    << <<"founded_date", "Founded Date">>, <<"stock_symbol", "Stock Symbol">>,
       <<"legal_name", "Legal Name">>, <<"operating_status", "Operating Status">> >>

\* value.split(',')[-1]
RECURSIVE AfterLastComma(_)
AfterLastComma(s) ==
    IF \E i \in 1..Len(s) : s[i] = "," THEN AfterLastComma(Tail(s)) ELSE s

\* int(value.split(',')[-1].strip()): Some(year), or None when int() raises
FoundedYear(value) == ParseInt(Strip(AfterLastComma(value)))

\* lines 608-623
RECURSIVE WithLabelFields(_, _, _)
WithLabelFields(cd, pg, n) ==
    IF n = 0 THEN cd
    ELSE LET prev == WithLabelFields(cd, pg, n - 1)
             field == LabelFields[n][1]
             value == GetFieldByLabel(pg, LabelFields[n][2])
         IN  IF ~Truthy(value) THEN prev
             ELSE IF field = "founded_date"
               THEN IF FoundedYear(value[1]) # None
                      THEN [prev EXCEPT !.year_founded = FoundedYear(value[1])]
                      ELSE prev
             ELSE [prev EXCEPT ![field] = value]

\* lines 546-623: the record after the extraction from the company page
Assemble(name, pg) ==
    WithLabelFields(
        WithNumericFields(
            WithIconFields(WithDescription(CompanyData(name), pg), pg, Len(FieldMapping)),
            pg, Len(NumericFields)),
        pg, Len(LabelFields))

\* financials_url = current_url + "/company_financials"
FinancialsUrl(url) == Append(url, "/company_financials")

\* if not name
NameMissing_none(name) == name = None
NameMissing(name) == ~Truthy(name)

\* lines 538-635: the name, the fields of the company page, driver.current_url
ScrapeExtract ==
    /\ pc = "scrape"
    /\ scrape_exc' = FALSE
    /\ navigated' = FALSE
    /\ LET name == GetCleanCompanyName(page)
       IN  IF NameMissing(name)
             THEN /\ scrape_ret' = None
                  /\ pc' = "scraped"
                  /\ UNCHANGED <<company_data, saved_url>>
             ELSE /\ company_data' = Some(Assemble(name[1], page))
                  /\ saved_url' = current_url
                  /\ scrape_ret' = None
                  /\ pc' = "to_financials"
    /\ UNCHANGED <<page, current_url>>

\* lines 636-638: driver.get(financials_url) loads the page
GoFinancials ==
    /\ pc = "to_financials"
    /\ current_url' = FinancialsUrl(saved_url)
    /\ navigated' = TRUE
    /\ pc' = "financials"
    /\ UNCHANGED <<page, company_data, saved_url, scrape_ret, scrape_exc>>

\* lines 637, 652-654: driver.get(financials_url) raises, the browser having
\* left the company page (moved) or not
GoFinancialsFails(moved) ==
    /\ pc = "to_financials"
    /\ current_url' = IF moved THEN FinancialsUrl(saved_url) ELSE current_url
    /\ navigated' = moved
    /\ scrape_exc' = TRUE
    /\ scrape_ret' = None
    /\ pc' = "scraped"
    /\ UNCHANGED <<page, company_data, saved_url>>

\* lines 640-643
WithFundingInfo(cd, pg) ==
    LET funding_info == GetFundingInfo(pg)
    IN  IF Truthy(funding_info) THEN [cd EXCEPT !.funding_info = funding_info] ELSE cd

\* lines 640-650: the funding information, then back to the company page
ScrapeFinancials ==
    /\ pc = "financials"
    /\ company_data' = Some(WithFundingInfo(company_data[1], page))
    /\ current_url' = saved_url
    /\ scrape_ret' = company_data'
    /\ pc' = "scraped"
    /\ UNCHANGED <<page, saved_url, scrape_exc, navigated>>

\* lines 646, 652-654: driver.get(current_url) raises, the browser having left
\* the financials page (moved) or not
GoBackFails(moved) ==
    /\ pc = "financials"
    /\ company_data' = Some(WithFundingInfo(company_data[1], page))
    /\ current_url' = IF moved THEN saved_url ELSE current_url
    /\ scrape_exc' = TRUE
    /\ scrape_ret' = None
    /\ pc' = "scraped"
    /\ UNCHANGED <<page, saved_url, navigated>>

---------------------------------------------------------------------------
(* The company pages of the model *)

Elem(title, text) == [title |-> title, text |-> text]

SvgKeys == {"location", "employees", "company_type", "website", "ranking", "funding_type"}
NumericLabels == {"Acquisitions", "Investments", "Exits"}
Labels == {"Founded Date", "Stock Symbol", "Legal Name", "Operating Status"}

\* a page on which every extractor finds its field
BasePage ==
    [ name |-> Some(<<"A", "c">>),
      description |-> Some(<<"d">>),
      svg |-> [k \in SvgKeys |->
                 CASE k = "location" -> Some(<<"L">>)
                   [] k = "employees" -> Some(<<"1", "-", "5">>)
                   [] k = "company_type" -> Some(<<"P">>)
                   [] k = "website" -> Some(<<"w">>)
                   [] k = "ranking" -> Some(<<"1", "2">>)
                   [] k = "funding_type" -> Some(<<"S">>)],
      website_link |-> [found |-> TRUE, href |-> Some(<<"h">>)],
      numeric |-> [l \in NumericLabels |-> Some(Elem(Some(<<"7">>), <<"7">>))],
      labels |-> [l \in Labels |->
                 CASE l = "Founded Date" ->
                        Some(Elem(Some(<<"J", " ", "1", ",", " ", "2", "0", "1", "5">>), <<>>))
                   [] l = "Stock Symbol" -> Some(Elem(Some(<<"T">>), <<"t">>))
                   [] l = "Legal Name" -> Some(Elem(None, <<"N">>))
                   [] l = "Operating Status" -> Some(Elem(None, <<"O">>))],
      funding |-> Some(<<"f">>) ]

\* the pages on which any subset of the extractors finds nothing
PagesFail ==
    { [ name |-> BasePage.name,
        description |-> IF d THEN None ELSE BasePage.description,
        svg |-> [k \in SvgKeys |-> IF k \in S THEN None ELSE BasePage.svg[k]],
        website_link |-> BasePage.website_link,
        numeric |-> [l \in NumericLabels |-> IF l \in N THEN None ELSE BasePage.numeric[l]],
        labels |-> [l \in Labels |-> IF l \in L THEN None ELSE BasePage.labels[l]],
        funding |-> IF f THEN None ELSE BasePage.funding ] :
      d \in BOOLEAN, S \in SUBSET SvgKeys, N \in SUBSET NumericLabels,
      L \in SUBSET Labels, f \in BOOLEAN }

\* the forms a text, an element and a founded date take on a page
TextForms == { <<>>, <<" ">>, <<" ", "x", " ">> }
ElemForms ==
    { Elem(None, <<" ", "3", " ">>), Elem(Some(<<>>), <<"0">>), Elem(Some(<<"4">>), <<"x">>),
      Elem(None, <<"1", ",", "2">>), Elem(None, <<>>), Elem(Some(<<"y">>), <<>>) }
FoundedForms ==
    { <<"2", "0", "1", "5">>, <<"J", " ", "2", "0", "1", "5">>,
      <<"J", " ", "1", ",", "2", "0", "1", "5">>, <<"2", "0", "1", "5", ",">>,
      <<"J", " ", "1", ",", " ", "2", "0", "1", "5", " ">>, <<"1", ",", "J">> }

\* the base page with one observation in another form
PagesForm ==
    {[BasePage EXCEPT !.name = n] : n \in {None} \cup {Some(t) : t \in TextForms}}
    \cup {[BasePage EXCEPT !.description = Some(t)] : t \in TextForms}
    \cup {[BasePage EXCEPT !.funding = Some(t)] : t \in TextForms}
    \cup {[BasePage EXCEPT !.svg["ranking"] = Some(t)] :
            t \in {<<"x">>, <<"1", ",", "2">>, <<"0", "7">>}}
    \cup {[BasePage EXCEPT !.website_link = w] :
            w \in {[found |-> FALSE, href |-> None], [found |-> TRUE, href |-> None]}}
    \cup {[BasePage EXCEPT !.numeric[l] = Some(e)] : l \in NumericLabels, e \in ElemForms}
    \cup {[BasePage EXCEPT !.labels[l] = Some(e)] : l \in Labels, e \in ElemForms}
    \cup {[BasePage EXCEPT !.labels["Founded Date"] = Some(Elem(Some(t), <<>>))] :
            t \in FoundedForms}
    \cup {[BasePage EXCEPT !.labels["Founded Date"] = Some(Elem(None, t))] :
            t \in FoundedForms}

CompanyUrls == { <<"u1">>, <<"u2">> }

\* main has passed the credential check, started the browser, logged in and
\* been told to run in batch mode (src/main.py lines 27-55)
BatchChosen ==
    /\ email = Some(<<"e">>)
    /\ password = Some(<<"p">>)
    /\ driver = "running"
    /\ loaded = TRUE
    /\ mode = <<"2">>
    /\ asks = 0

\* main has not started
StartIdle ==
    /\ email = None
    /\ password = None
    /\ driver = "none"
    /\ loaded = FALSE
    /\ mode = <<>>
    /\ asks = 0

\* no helper is being called on its own
CallIdle ==
    /\ args = None
    /\ fn_ret = None

\* main has not run
MainIdle ==
    /\ list_file = None
    /\ company_list = <<>>
    /\ idx = 0
    /\ companies = <<>>
    /\ progress_file = None
    /\ final_file = None
    /\ attempted = <<>>
    /\ outcomes = <<>>

\* scrape_company_data has not been called
ScrapeIdle ==
    /\ page = BasePage
    /\ current_url = <<"home">>
    /\ company_data = None
    /\ saved_url = <<>>
    /\ scrape_ret = None
    /\ scrape_exc = FALSE
    /\ navigated = FALSE

\* analyze_search_results has not been called
MatcherIdle ==
    /\ search_name = <<>>
    /\ dom = [ok |-> FALSE, links |-> <<>>]
    /\ results = <<>>
    /\ best_match = None
    /\ best_similarity = ZeroRatio
    /\ ret = None
    /\ raised = FALSE
    /\ inputs = 0

InitScrape ==
    /\ pc = "scrape"
    /\ page \in PagesFail \cup PagesForm
    /\ current_url \in CompanyUrls
    /\ company_data = None
    /\ saved_url = <<>>
    /\ scrape_ret = None
    /\ scrape_exc = FALSE
    /\ navigated = FALSE
    /\ MatcherIdle
    /\ MainIdle
    /\ BatchChosen
    /\ CallIdle

NextScrape ==
    \/ ScrapeExtract /\ UNCHANGED <<matcherVars, mainVars, startVars, callVars>>
    \/ GoFinancials /\ UNCHANGED <<matcherVars, mainVars, startVars, callVars>>
    \/ \E moved \in BOOLEAN : GoFinancialsFails(moved) /\ UNCHANGED <<matcherVars, mainVars, startVars, callVars>>
    \/ ScrapeFinancials /\ UNCHANGED <<matcherVars, mainVars, startVars, callVars>>
    \/ \E moved \in BOOLEAN : GoBackFails(moved) /\ UNCHANGED <<matcherVars, mainVars, startVars, callVars>>

SpecScrape == InitScrape /\ [][NextScrape]_vars

---------------------------------------------------------------------------
(* The currency helpers (src/src/utils.py lines 20-105 and 349-361) *)

\* str(n) of a non-negative integer, as str() and the format specs render it
RECURSIVE IntToText(_)
IntToText(n) ==
    LET d == <<"0", "1", "2", "3", "4", "5", "6", "7", "8", "9">>[(n % 10) + 1]
    IN  IF n < 10 THEN <<d>> ELSE Append(IntToText(n \div 10), d)

\* the dict of lines 28-39 in its insertion order, each entry <<symbol, code>>
CURRENCY_SYMBOLS ==
    << << <<"$">>, "USD" >>, << <<"€">>, "EUR" >>, << <<"£">>, "GBP" >>,
       << <<"¥">>, "JPY" >>, << <<"C", "N", "¥">>, "CNY" >>, << <<"₹">>, "INR" >>,
       << <<"A", "$">>, "AUD" >>, << <<"C", "$">>, "CAD" >>,
       << <<"H", "K", "$">>, "HKD" >>, << <<"₣">>, "CHF" >> >>

\* the dict of lines 20-24 in its insertion order, each entry <<suffix, multiplier>>
CURRENCY_MULTIPLIERS ==
    << <<"K", 1000>>, <<"M", 1000000>>, <<"B", 1000000000>> >>

\* `p in s` for texts
Contains(s, p) ==
    \E i \in 1..(Len(s) - Len(p) + 1) : SubSeq(s, i, i + Len(p) - 1) = p

\* s.startswith(p)
StartsWith_anywhere(s, p) == Contains(s, p)
StartsWith(s, p) == Len(p) <= Len(s) /\ SubSeq(s, 1, Len(p)) = p

\* s.replace(p, '', 1): the leftmost occurrence of p is cut out
RemoveFirst(s, p) ==
    IF Contains(s, p)
      THEN LET i == CHOOSE i \in 1..(Len(s) - Len(p) + 1) :
                      /\ SubSeq(s, i, i + Len(p) - 1) = p
                      /\ \A j \in 1..(i - 1) : SubSeq(s, j, j + Len(p) - 1) # p
           IN SubSeq(s, 1, i - 1) \o SubSeq(s, i + Len(p), Len(s))
      ELSE s

\* s.replace(c, '') for a one-character c: every occurrence is cut out
RemoveChar(s, c) == SelectSeq(s, LAMBDA x : x # c)

\* detect_currency (lines 47-57): the first table entry, in dict order, whose
\* symbol the stripped text starts with; the result is (code, cleaned text)
DetectCurrency(amount_str) ==
    LET s == Strip(amount_str)
        hits == {i \in 1..Len(CURRENCY_SYMBOLS) : StartsWith(s, CURRENCY_SYMBOLS[i][1])}
    IN IF hits = {} THEN <<"USD", s>>
       ELSE LET i == CHOOSE i \in hits : \A j \in hits : i <= j
            IN <<CURRENCY_SYMBOLS[i][2], Strip(RemoveFirst(s, CURRENCY_SYMBOLS[i][1]))>>

\* 10 ** k
RECURSIVE Pow10(_)
Pow10(k) == IF k = 0 THEN 1 ELSE 10 * Pow10(k - 1)

\* the first position of s that holds a character of S, or 0
FirstIn(s, S) ==
    IF \E i \in 1..Len(s) : s[i] \in S
      THEN CHOOSE i \in 1..Len(s) : s[i] \in S /\ \A j \in 1..(i - 1) : s[j] \notin S
      ELSE 0

\* a decimal literal of float(): digits with at most one point and at least
\* one digit
IsDecimal(s) ==
    /\ \A i \in 1..Len(s) : IsDigit(s[i]) \/ s[i] = "."
    /\ Cardinality({i \in 1..Len(s) : s[i] = "."}) <= 1
    /\ \E i \in 1..Len(s) : IsDigit(s[i])

\* an exponent of float(): an optional sign and at least one digit
IsExponent(s) ==
    LET digits == IF s # <<>> /\ Head(s) \in {"+", "-"} THEN Tail(s) ELSE s
    IN AllDigits(digits)

ExponentValue(s) ==
    IF Head(s) = "-" THEN 0 - DigitsValue(Tail(s))
    ELSE IF Head(s) = "+" THEN DigitsValue(Tail(s)) ELSE DigitsValue(s)

\* the number a valid literal denotes, as the exact fraction num / den
LiteralValue(mantissa, exponent) ==
    LET point == FirstIn(mantissa, {"."})
        frac == IF point = 0 THEN 0 ELSE Len(mantissa) - point
        n == DigitsValue(RemoveChar(mantissa, "."))
    IN IF exponent >= frac
         THEN [num |-> n * Pow10(exponent - frac), den |-> 1]
         ELSE [num |-> n, den |-> Pow10(frac - exponent)]

\* float(s) of Python for the literals made of sign, digits, point, exponent
\* and the words inf, infinity and nan: Some(number), or None where float
\* raises ValueError.  A number is [kind, neg, num, den]: the finite value
\* (-1)^neg * num / den, or an infinity, or nan.
FloatOf(text) ==
    LET s == Strip(text)
        neg == s # <<>> /\ Head(s) = "-"
        body == IF s # <<>> /\ Head(s) \in {"+", "-"} THEN Tail(s) ELSE s
        e == FirstIn(body, {"e", "E"})
        mantissa == IF e = 0 THEN body ELSE SubSeq(body, 1, e - 1)
        exponent == IF e = 0 THEN <<"0">> ELSE SubSeq(body, e + 1, Len(body))
    IN IF Lower(body) \in {<<"i", "n", "f">>, <<"i", "n", "f", "i", "n", "i", "t", "y">>}
         THEN Some([kind |-> "inf", neg |-> neg, num |-> 0, den |-> 1])
       ELSE IF Lower(body) = <<"n", "a", "n">>
         THEN Some([kind |-> "nan", neg |-> neg, num |-> 0, den |-> 1])
       ELSE IF IsDecimal(mantissa) /\ IsExponent(exponent)
         THEN LET v == LiteralValue(mantissa, ExponentValue(exponent))
              IN Some([kind |-> "finite", neg |-> neg, num |-> v.num, den |-> v.den])
       ELSE None

\* line 73: the texts that stand for no amount
SentinelTexts == { <<"n", "/", "a">>, <<"u", "n", "k", "n", "o", "w", "n">>, <<"-", "-">> }

\* line 103: the exceptions parse_currency_amount catches
CaughtByParse == {"ValueError", "AttributeError"}

\* lines 94-99: what a failed conversion lookup leaves of the amount
LookupFailed_unconverted(amount) == Some(amount)
LookupFailed(amount) == None

\* parse_currency_amount (lines 59-105).  forex_ok tells whether
\* CurrencyRates().convert succeeds when it is called.  The result is
\* [value, lookup, raised]: value is the Optional amount returned, lookup is
\* "none", "ok" or "failed", raised tells whether an exception left the
\* function.  An amount is float(cleaned_amount) * multiplier kept as the
\* number and its multiplier, with the currency it is denominated in and
\* whether convert() produced it.
ParseCurrencyAmount(amount_str, target_currency, forex_ok) ==
    IF amount_str = <<>> \/ Lower(amount_str) \in SentinelTexts
      THEN [value |-> None, lookup |-> "none", raised |-> FALSE]
    ELSE
      LET detected == DetectCurrency(amount_str)
          source_currency == detected[1]
          separated == Strip(RemoveChar(detected[2], ","))
          hits == {i \in 1..Len(CURRENCY_MULTIPLIERS) :
                      Contains(separated, <<CURRENCY_MULTIPLIERS[i][1]>>)}
          hit == CHOOSE i \in hits : \A j \in hits : i <= j
          multiplier == IF hits = {} THEN 1 ELSE CURRENCY_MULTIPLIERS[hit][2]
          cleaned_amount ==
              IF hits = {} THEN separated
              ELSE Strip(RemoveChar(separated, CURRENCY_MULTIPLIERS[hit][1]))
          number == FloatOf(cleaned_amount)
          amount == [number |-> number[1], multiplier |-> multiplier,
                     currency |-> source_currency, converted |-> FALSE]
      IN IF number = None
           THEN [value |-> None, lookup |-> "none",
                 raised |-> "ValueError" \notin CaughtByParse]
         ELSE IF source_currency # target_currency
           THEN IF forex_ok
                  THEN [value |-> Some([amount EXCEPT !.currency = target_currency,
                                                      !.converted = TRUE]),
                        lookup |-> "ok", raised |-> FALSE]
                  ELSE [value |-> LookupFailed(amount), lookup |-> "failed",
                        raised |-> FALSE]
         ELSE [value |-> Some(amount), lookup |-> "none", raised |-> FALSE]

\* An amount handed to format_currency is a float that is a whole number of
\* halves, [units, half]: the value units + half / 2, which a double holds
\* exactly.
Halves(amount) == 2 * amount.units + amount.half

\* (x * 2^j) mod m
RECURSIVE MulPow2Mod(_, _, _)
MulPow2Mod(x, j, m) == IF j = 0 THEN x % m ELSE MulPow2Mod((2 * x) % m, j - 1, m)

\* floor(log2(n)) for n >= 1
RECURSIVE Log2Floor(_)
Log2Floor(n) == IF n < 2 THEN 0 ELSE 1 + Log2Floor(n \div 2)

\* 5 ** k
RECURSIVE Pow5(_)
Pow5(k) == IF k = 0 THEN 1 ELSE 5 * Pow5(k - 1)

\* How the double amount / 10^e lies to the exact quotient q = H / (2 * 10^e),
\* 1 <= q < 1024: the division rounds q * 2^(52 - L), L = floor(log2 q), to the
\* nearest integer, and what it drops is ((H * 2^(51 - L - e)) mod 5^e) / 5^e.
\* The result is "exact", "below" or "above".
QuotientError(H, e) ==
    LET L == Log2Floor(H \div (2 * Pow10(e)))
        R == MulPow2Mod(H % Pow5(e), 51 - L - e, Pow5(e))
    IN IF R = 0 THEN "exact" ELSE IF 2 * R < Pow5(e) THEN "below" ELSE "above"

\* f"{amount / 10**e:.1f}": the double quotient rounded to tenths, as the
\* number of tenths.  The exact quotient is H / (2 * 10^e), that is H / D
\* tenths with D = 10^e / 5; a quotient that is a tie of the decimal rounding
\* goes where its double lies, and to the even digit when the double is exact.
Tenths(H, e) ==
    LET D == Pow10(e) \div 5
        t == H \div D
        r == H % D
    IN IF 2 * r < D THEN t
       ELSE IF 2 * r > D THEN t + 1
       ELSE CASE QuotientError(H, e) = "below" -> t
              [] QuotientError(H, e) = "above" -> t + 1
              [] OTHER -> IF t % 2 = 0 THEN t ELSE t + 1

\* the text of f"{x:.1f}" for x given in tenths
Fixed1(tenths) == IntToText(tenths \div 10) \o <<".">> \o IntToText(tenths % 10)

\* f"{amount:.0f}": a half goes to the even neighbour
Fixed0(amount) ==
    IntToText(IF amount.half = 1 /\ amount.units % 2 = 1
                THEN amount.units + 1 ELSE amount.units)

\* lines 354, 356, 358: amount >= 10 ** e
AtLeast_gt(amount, e) == amount.units > Pow10(e) \/ (amount.units = Pow10(e) /\ amount.half = 1)
AtLeast(amount, e) == amount.units >= Pow10(e)

\* format_currency (lines 349-361)
FormatCurrency(amount) ==
    IF amount = None THEN <<>>
    ELSE IF AtLeast(amount[1], 9) THEN Fixed1(Tenths(Halves(amount[1]), 9)) \o <<"B">>
    ELSE IF AtLeast(amount[1], 6) THEN Fixed1(Tenths(Halves(amount[1]), 6)) \o <<"M">>
    ELSE IF AtLeast(amount[1], 3) THEN Fixed1(Tenths(Halves(amount[1]), 3)) \o <<"K">>
    ELSE Fixed0(amount[1])

\* the names utils.py defines at module level that get_funding_amount and the
\* helpers above refer to (lines 20-39, 508); CNY_TO_USD_RATE is not among them
DefinedNames ==
    {"CURRENCY_MULTIPLIERS", "NAME_SIMILARITY_THRESHOLD", "CURRENCY_SYMBOLS", "SVG_PATHS"}

\* `if amount:` for an Optional amount: neither None nor 0.0
AmountTruthy(v) == v # None /\ ~(v[1].number.kind = "finite" /\ v[1].number.num = 0)

\* get_funding_amount (lines 276-307) on a page whose money spans are
\* funding_elements: (usd, cny).  Reading CNY_TO_USD_RATE at line 299 or 301
\* raises NameError, which the except of line 305 turns into (None, None).
GetFundingAmount(funding_elements, forex_ok) ==
    IF funding_elements = <<>> THEN <<None, None>>
    ELSE LET funding_text == Strip(TitleOrText(funding_elements[1]))
             amount == ParseCurrencyAmount(funding_text, "USD", forex_ok).value
         IN IF ~AmountTruthy(amount) THEN <<None, None>>
            ELSE IF "CNY_TO_USD_RATE" \notin DefinedNames THEN <<None, None>>
            ELSE IF Contains(funding_text, <<"$">>)
              THEN <<amount, Some([amount[1] EXCEPT !.currency = "CNY", !.converted = TRUE])>>
            ELSE <<Some([amount[1] EXCEPT !.currency = "USD", !.converted = TRUE]), amount>>

---------------------------------------------------------------------------
(* save_companies_to_csv *)

\* headers = [field.replace('_', ' ').title() for field in fields]
CsvHeader ==
    <<"Name", "Location", "Company Type", "Total Funding Usd", "Total Funding Cny",
      "Employee Count", "Year Founded", "Website">>

\* value if value is not None else ''
TextCell(v) == IF v = None THEN <<>> ELSE v[1]
IntCell(v) == IF v = None THEN <<>> ELSE IntToText(v[1])

\* lines 390-392: a funding value that is not None goes through format_currency
FundingCell_zero(v) == IF v = None THEN <<"0">> ELSE FormatCurrency(v)
FundingCell(v) == IF v = None THEN <<>> ELSE FormatCurrency(v)

\* lines 386-393: the row of one company
CsvRow(company) ==
    << company.name, TextCell(company.location), TextCell(company.company_type),
       FundingCell(company.total_funding_usd), FundingCell(company.total_funding_cny),
       TextCell(company.employee_count), IntCell(company.year_founded),
       TextCell(company.website) >>

\* the rows written for a list of companies, one each, in list order
CsvRows(list) == [i \in 1..Len(list) |-> CsvRow(list[i])]

\* save_companies_to_csv(companies, filename): the file it leaves
CsvFile(list) == [header |-> CsvHeader, rows |-> CsvRows(list)]

---------------------------------------------------------------------------
(* main, batch mode (src/main.py lines 76-107) *)

\* read_company_list: the stripped non-blank lines; [] when the file is missing
RECURSIVE StrippedLines(_)
StrippedLines(lines) ==
    IF lines = <<>> THEN <<>>
    ELSE (IF Strip(Head(lines)) # <<>> THEN <<Strip(Head(lines))>> ELSE <<>>)
            \o StrippedLines(Tail(lines))
ReadCompanyListFile(file) == IF file = None THEN <<>> ELSE StrippedLines(file[1])

\* lines 76-78, 97-98
ReadCompanyList ==
    /\ pc = "read_list"
    /\ company_list' = ReadCompanyListFile(list_file)
    /\ idx' = 0
    /\ pc' = IF company_list' # <<>> THEN "loop" ELSE "finally"
    /\ UNCHANGED <<list_file, companies, progress_file, final_file, attempted, outcomes>>

\* where main goes once a company has ended, scraped or not: on to line 94 in
\* batch mode, back to the name prompt of line 58 in interactive mode
AfterCompany_abort(ok) == IF ok THEN "save" ELSE "finally"
AfterCompany(ok) == IF mode = <<"1">> THEN "ask" ELSE "save"

Outcome(kind) == [kind |-> kind]

\* lines 79-82: the loop takes the next name and calls search_company
LoopNext ==
    /\ pc = "loop"
    /\ idx < Len(company_list)
    /\ idx' = idx + 1
    /\ attempted' = Append(attempted, company_list[idx + 1])
    /\ search_name' = company_list[idx + 1]
    /\ pc' = "search"
    /\ UNCHANGED <<dom, results, best_match, best_similarity, ret, raised, inputs>>
    /\ UNCHANGED scrapeVars
    /\ UNCHANGED <<list_file, company_list, companies, progress_file, final_file, outcomes>>

\* line 79: the list is exhausted
LoopEnd ==
    /\ pc = "loop"
    /\ idx >= Len(company_list)
    /\ pc' = "finally"
    /\ UNCHANGED <<matcherVars, scrapeVars, mainVars>>

\* search_and_click_first_result lines 191-241: the query is typed and the
\* search page `sp` renders
SearchType(sp) ==
    /\ pc = "search"
    /\ dom' = sp
    /\ results' = <<>>
    /\ best_match' = None
    /\ best_similarity' = ZeroRatio
    /\ ret' = None
    /\ raised' = FALSE
    /\ inputs' = 0
    /\ pc' = "analyze"
    /\ UNCHANGED <<search_name, scrapeVars, mainVars>>

\* lines 191-241, 253-255, main 91-92: the search box raises; returns False
SearchFails ==
    /\ pc = "search"
    /\ outcomes' = Append(outcomes, Outcome("search_error"))
    /\ pc' = AfterCompany(FALSE)
    /\ UNCHANGED <<matcherVars, scrapeVars>>
    /\ UNCHANGED <<list_file, company_list, idx, companies, progress_file, final_file, attempted>>

\* lines 244-251, main 91-92: no url (or analyze_search_results raised); returns False
NoMatch ==
    /\ pc = "matched"
    /\ raised \/ ret = None
    /\ outcomes' = Append(outcomes, Outcome("no_match"))
    /\ pc' = AfterCompany(FALSE)
    /\ UNCHANGED <<matcherVars, scrapeVars>>
    /\ UNCHANGED <<list_file, company_list, idx, companies, progress_file, final_file, attempted>>

\* lines 245-248, main 82-86: driver.get(url) renders the company page `pg`
OpenMatch(pg) ==
    /\ pc = "matched"
    /\ ~raised /\ ret # None
    /\ current_url' = <<ret[1][2]>>
    /\ page' = pg
    /\ pc' = "scrape"
    /\ UNCHANGED <<company_data, saved_url, scrape_ret, scrape_exc, navigated>>
    /\ UNCHANGED <<matcherVars, mainVars>>

\* lines 247, 253-255, main 91-92: driver.get(url) raises; returns False
OpenMatchFails ==
    /\ pc = "matched"
    /\ ~raised /\ ret # None
    /\ outcomes' = Append(outcomes, Outcome("nav_error"))
    /\ pc' = AfterCompany(FALSE)
    /\ UNCHANGED <<matcherVars, scrapeVars>>
    /\ UNCHANGED <<list_file, company_list, idx, companies, progress_file, final_file, attempted>>

\* main lines 86-90: if company_data: companies.append(company_data)
Collect ==
    /\ pc = "scraped"
    /\ IF scrape_ret # None
         THEN /\ companies' = Append(companies, scrape_ret[1])
              /\ outcomes' = Append(outcomes, Outcome("scraped"))
              /\ pc' = AfterCompany(TRUE)
         ELSE /\ companies' = companies
              /\ outcomes' = Append(outcomes, Outcome("scrape_none"))
              /\ pc' = AfterCompany(FALSE)
    /\ UNCHANGED <<matcherVars, scrapeVars>>
    /\ UNCHANGED <<list_file, company_list, idx, progress_file, final_file, attempted>>

\* main lines 94-96: if companies: save_to_csv(companies, "companies_progress.csv")
SaveProgress_skip ==
    /\ pc = "save"
    /\ pc' = "loop"
    /\ UNCHANGED <<matcherVars, scrapeVars, mainVars>>
SaveProgress ==
    /\ pc = "save"
    /\ progress_file' = IF companies # <<>> THEN Some(CsvFile(companies)) ELSE progress_file
    /\ pc' = "loop"
    /\ UNCHANGED <<matcherVars, scrapeVars>>
    /\ UNCHANGED <<list_file, company_list, idx, companies, final_file, attempted, outcomes>>

\* main lines 101-107: the final save when the operator answers `typed`, then close
Finally(typed) ==
    /\ pc = "finally"
    /\ final_file' = IF companies # <<>> /\ Lower(Strip(typed)) = <<"y">>
                       THEN Some(CsvFile(companies)) ELSE final_file
    /\ driver' = "quit"
    /\ pc' = "closed"
    /\ UNCHANGED <<matcherVars, scrapeVars>>
    /\ UNCHANGED <<list_file, company_list, idx, companies, progress_file, attempted, outcomes>>
    /\ UNCHANGED <<email, password, loaded, mode, asks>>

---------------------------------------------------------------------------
(* The inputs of the matcher *)

Link(span, text, href) == [span |-> span, text |-> text, href |-> href]

PlainLinks ==
    { Link(TRUE, <<"c">>, Some("u4")), Link(TRUE, <<"a", "b">>, Some("u1")) }

RichLinks ==
    PlainLinks \cup
    { Link(TRUE, <<" ", "A", "b">>, Some("u2")),
      Link(TRUE, <<"a", "b", "c">>, Some("u3")),
      Link(TRUE, <<"b">>, Some("u1")),
      Link(FALSE, <<>>, Some("u1")),
      Link(TRUE, <<" ">>, Some("u1")),
      Link(TRUE, <<"a", "b">>, None) }

SeqsUpTo(S, n) == UNION {[1..k -> S] : k \in 0..n}

SearchPages ==
    {[ok |-> FALSE, links |-> <<>>]} \cup
    {[ok |-> TRUE, links |-> l] : l \in SeqsUpTo(RichLinks, MaxRich) \cup SeqsUpTo(PlainLinks, MaxRaw)}

Queries == { <<"A", "B">>, <<"a", "b", "c">>, <<"c">> }

InitMatch ==
    /\ pc = "analyze"
    /\ search_name \in Queries
    /\ dom \in SearchPages
    /\ results = <<>>
    /\ best_match = None
    /\ best_similarity = ZeroRatio
    /\ ret = None
    /\ raised = FALSE
    /\ inputs = 0
    /\ ScrapeIdle
    /\ MainIdle
    /\ BatchChosen
    /\ CallIdle

NextMatch ==
    \/ Analyze /\ UNCHANGED <<scrapeVars, mainVars, startVars, callVars>>
    \/ \E typed \in Answers : Prompt(typed) /\ UNCHANGED <<scrapeVars, mainVars, startVars, callVars>>
    \/ PromptEOF /\ UNCHANGED <<scrapeVars, mainVars, startVars, callVars>>

SpecMatch == InitMatch /\ [][NextMatch]_vars

---------------------------------------------------------------------------
(* The batch run *)

ListLines == { <<"A", "B">>, <<" ", "c", " ">>, <<" ">> }
ListFiles == {None} \cup {Some(l) : l \in SeqsUpTo(ListLines, MaxLines)}

\* companies_progress.csv as an earlier run left it
StaleFile == CsvFile(<<CompanyData(<<"O", "l", "d">>)>>)

SearchPagesBatch ==
    { [ok |-> FALSE, links |-> <<>>],
      [ok |-> TRUE, links |-> <<Link(TRUE, <<"a", "b">>, Some("u1"))>>],
      [ok |-> TRUE, links |-> <<Link(TRUE, <<"b">>, Some("u2")),
                                Link(TRUE, <<"a", "b", "c">>, Some("u3"))>>] }

PagesBatch ==
    { BasePage,
      [BasePage EXCEPT !.name = None],
      [BasePage EXCEPT !.name = Some(<<" ">>)],
      [ name |-> Some(<<" ", "B">>), description |-> None,
        svg |-> [k \in SvgKeys |-> None],
        website_link |-> [found |-> FALSE, href |-> None],
        numeric |-> [l \in NumericLabels |-> None],
        labels |-> [l \in Labels |-> None],
        funding |-> None ] }

FinalAnswers == { <<"y">>, <<" ", "Y">>, <<"n">>, <<>> }

Init ==
    /\ pc = "read_list"
    /\ list_file \in ListFiles
    /\ company_list = <<>>
    /\ idx = 0
    /\ companies = <<>>
    /\ progress_file \in {None, Some(StaleFile)}
    /\ final_file = None
    /\ attempted = <<>>
    /\ outcomes = <<>>
    /\ MatcherIdle
    /\ ScrapeIdle
    /\ BatchChosen
    /\ CallIdle

Next ==
    \/ ReadCompanyList /\ UNCHANGED <<matcherVars, scrapeVars, startVars, callVars>>
    \/ LoopNext /\ UNCHANGED <<startVars, callVars>>
    \/ LoopEnd /\ UNCHANGED <<startVars, callVars>>
    \/ \E sp \in SearchPagesBatch : SearchType(sp) /\ UNCHANGED <<startVars, callVars>>
    \/ SearchFails /\ UNCHANGED <<startVars, callVars>>
    \/ Analyze /\ UNCHANGED <<scrapeVars, mainVars, startVars, callVars>>
    \/ \E typed \in Answers : Prompt(typed) /\ UNCHANGED <<scrapeVars, mainVars, startVars, callVars>>
    \/ PromptEOF /\ UNCHANGED <<scrapeVars, mainVars, startVars, callVars>>
    \/ NoMatch /\ UNCHANGED <<startVars, callVars>>
    \/ \E pg \in PagesBatch : OpenMatch(pg) /\ UNCHANGED <<startVars, callVars>>
    \/ OpenMatchFails /\ UNCHANGED <<startVars, callVars>>
    \/ ScrapeExtract /\ UNCHANGED <<matcherVars, mainVars, startVars, callVars>>
    \/ GoFinancials /\ UNCHANGED <<matcherVars, mainVars, startVars, callVars>>
    \/ \E moved \in BOOLEAN : GoFinancialsFails(moved) /\ UNCHANGED <<matcherVars, mainVars, startVars, callVars>>
    \/ ScrapeFinancials /\ UNCHANGED <<matcherVars, mainVars, startVars, callVars>>
    \/ \E moved \in BOOLEAN : GoBackFails(moved) /\ UNCHANGED <<matcherVars, mainVars, startVars, callVars>>
    \/ Collect /\ UNCHANGED <<startVars, callVars>>
    \/ SaveProgress /\ UNCHANGED <<startVars, callVars>>
    \/ \E typed \in FinalAnswers : Finally(typed) /\ UNCHANGED callVars

Spec == Init /\ [][Next]_vars

---------------------------------------------------------------------------
(* main from its first line (src/main.py lines 24-73) *)

\* line 30: `not email or not password`
CredentialsMissing_and(e, p) == ~Truthy(e) /\ ~Truthy(p)
CredentialsMissing(e, p) == ~Truthy(e) \/ ~Truthy(p)

\* lines 26-32: the environment is read and main returns when a credential is
\* missing or empty
CheckCredentials ==
    /\ pc = "start"
    /\ pc' = IF CredentialsMissing(email, password) THEN "returned" ELSE "construct"
    /\ UNCHANGED <<matcherVars, scrapeVars, mainVars, startVars>>

\* line 34, scraper.py 25-49: the constructor starts Chrome
ConstructScraper ==
    /\ pc = "construct"
    /\ driver' = "running"
    /\ pc' = "homepage"
    /\ UNCHANGED <<matcherVars, scrapeVars, mainVars>>
    /\ UNCHANGED <<email, password, loaded, mode, asks>>

\* line 34, scraper.py 47-48: Chrome does not start; the exception leaves main,
\* which has not entered its try yet
ConstructScraperFails ==
    /\ pc = "construct"
    /\ pc' = "crashed"
    /\ UNCHANGED <<matcherVars, scrapeVars, mainVars, startVars>>

\* line 41, scraper.py 51-74: the login page and then the home page are loaded
AccessHomepage ==
    /\ pc = "homepage"
    /\ loaded' = TRUE
    /\ current_url' = <<"home">>
    /\ pc' = "mode"
    /\ UNCHANGED <<page, company_data, saved_url, scrape_ret, scrape_exc, navigated>>
    /\ UNCHANGED <<matcherVars, mainVars>>
    /\ UNCHANGED <<email, password, driver, mode, asks>>

\* line 41, 99-100, scraper.py 57-78: a driver.get raises with the browser at
\* `at`; access_homepage returns False and main goes to its finally
AccessHomepageFails(at) ==
    /\ pc = "homepage"
    /\ loaded' = TRUE
    /\ current_url' = at
    /\ pc' = "finally"
    /\ UNCHANGED <<page, company_data, saved_url, scrape_ret, scrape_exc, navigated>>
    /\ UNCHANGED <<matcherVars, mainVars>>
    /\ UNCHANGED <<email, password, driver, mode, asks>>

\* lines 49-55, 74-76: the mode prompt is repeated until the answer is 1 or 2
SelectMode(typed) ==
    /\ pc = "mode"
    /\ mode' = Strip(typed)
    /\ pc' = IF mode' = <<"1">> THEN "ask"
             ELSE IF mode' = <<"2">> THEN "read_list" ELSE "mode"
    /\ UNCHANGED <<matcherVars, scrapeVars, mainVars>>
    /\ UNCHANGED <<email, password, driver, loaded, asks>>

\* line 50: input() raises at end of input; main goes to its finally
SelectModeEOF ==
    /\ pc = "mode"
    /\ pc' = "finally"
    /\ UNCHANGED <<matcherVars, scrapeVars, mainVars, startVars>>

\* lines 57-63: the operator types a company name, or quit in any letter case
AskName(typed) ==
    /\ pc = "ask"
    /\ LET company_name == Strip(typed) IN
         IF Lower(company_name) = <<"q", "u", "i", "t">>
           THEN /\ pc' = "finally"
                /\ UNCHANGED <<search_name, attempted, asks>>
           ELSE /\ asks < MaxAsks
                /\ asks' = asks + 1
                /\ attempted' = Append(attempted, company_name)
                /\ search_name' = company_name
                /\ pc' = "search"
    /\ UNCHANGED <<dom, results, best_match, best_similarity, ret, raised, inputs>>
    /\ UNCHANGED scrapeVars
    /\ UNCHANGED <<list_file, company_list, idx, companies, progress_file, final_file, outcomes>>
    /\ UNCHANGED <<email, password, driver, loaded, mode>>

\* line 58: input() raises at end of input; main goes to its finally
AskNameEOF ==
    /\ pc = "ask"
    /\ pc' = "finally"
    /\ UNCHANGED <<matcherVars, scrapeVars, mainVars, startVars>>

\* what os.getenv may return for a credential: unset, empty, or a value
Credentials == {None, Some(<<>>), Some(<<"e">>)}
ModeAnswers == { <<"1">>, <<" ", "2">>, <<"3">>, <<>> }
NameAnswers == { <<"A", "B">>, <<" ", "c">>, <<"Q", "u", "i", "t", " ">>, <<"q", "u", "i", "t">> }
FailedLoadUrls == { <<>>, <<"login">> }

InitMain ==
    /\ pc = "start"
    /\ email \in Credentials
    /\ password \in Credentials
    /\ driver = "none"
    /\ loaded = FALSE
    /\ mode = <<>>
    /\ asks = 0
    /\ list_file \in ListFiles
    /\ company_list = <<>>
    /\ idx = 0
    /\ companies = <<>>
    /\ progress_file \in {None, Some(StaleFile)}
    /\ final_file = None
    /\ attempted = <<>>
    /\ outcomes = <<>>
    /\ page = BasePage
    /\ current_url = <<>>
    /\ company_data = None
    /\ saved_url = <<>>
    /\ scrape_ret = None
    /\ scrape_exc = FALSE
    /\ navigated = FALSE
    /\ MatcherIdle
    /\ CallIdle

NextMain ==
    \/ CheckCredentials /\ UNCHANGED callVars
    \/ ConstructScraper /\ UNCHANGED callVars
    \/ ConstructScraperFails /\ UNCHANGED callVars
    \/ AccessHomepage /\ UNCHANGED callVars
    \/ \E at \in FailedLoadUrls : AccessHomepageFails(at) /\ UNCHANGED callVars
    \/ \E typed \in ModeAnswers : SelectMode(typed) /\ UNCHANGED callVars
    \/ SelectModeEOF /\ UNCHANGED callVars
    \/ \E typed \in NameAnswers : AskName(typed) /\ UNCHANGED callVars
    \/ AskNameEOF /\ UNCHANGED callVars
    \/ Next

SpecMain == InitMain /\ [][NextMain]_vars

---------------------------------------------------------------------------
(* The currency helpers called on their own *)

\* detect_currency(amount_str)
CallDetectCurrency ==
    /\ pc = "call"
    /\ args[1].fn = "detect_currency"
    /\ fn_ret' = Some(DetectCurrency(args[1].amount_str))
    /\ pc' = "returned"
    /\ UNCHANGED args

\* parse_currency_amount(amount_str, target_currency); the exchange-rate
\* service answers or fails
CallParseCurrencyAmount(forex_ok) ==
    /\ pc = "call"
    /\ args[1].fn = "parse_currency_amount"
    /\ fn_ret' = Some(ParseCurrencyAmount(args[1].amount_str, args[1].target_currency,
                                          forex_ok))
    /\ pc' = "returned"
    /\ UNCHANGED args

\* format_currency(amount)
CallFormatCurrency ==
    /\ pc = "call"
    /\ args[1].fn = "format_currency"
    /\ fn_ret' = Some(FormatCurrency(args[1].amount))
    /\ pc' = "returned"
    /\ UNCHANGED args

\* the texts handed to detect_currency: every text of symbol characters, and
\* every table symbol before a digit
SymbolChars == {"$", "¥", "€", "C", "N", "A", "H", "K", " ", "1"}
DetectTexts ==
    SeqsUpTo(SymbolChars, MaxSymLen)
    \cup {CURRENCY_SYMBOLS[i][1] \o <<"1">> : i \in 1..Len(CURRENCY_SYMBOLS)}

\* the texts handed to parse_currency_amount: a symbol or none, then a body;
\* and the sentinel texts, the special words of float() and the examples
BodyChars == {"1", "5", ".", ",", "K", "M", "B", "x", " "}
Prefixes == { <<>>, <<"$">>, <<"C", "N", "¥">> }
AmountWords ==
    { <<"n", "/", "a">>, <<"N", "/", "A">>, <<"n", "/", "A">>, <<" ", "n", "/", "a">>,
      <<"u", "n", "k", "n", "o", "w", "n">>, <<"U", "N", "K", "N", "O", "W", "N">>,
      <<"U", "n", "k", "n", "o", "w", "n">>, <<"-", "-">>, <<"-", "-", " ">>,
      <<"a", "b", "c">>, <<"n", "a", "n">>, <<"N", "a", "N">>, <<"i", "n", "f">>,
      <<"-", "i", "n", "f">>, <<"1", "e", "5">>, <<"1", "E", "-", "1">>,
      <<"$", "1", ".", "5", "M">>, <<"C", "N", "¥", "1", "0", "0", "K">>,
      <<"H", "K", "$", "5">>, <<"$", "1", ",", "5", "0", "0">>, <<"€", "5", "K">>,
      <<"-", "1">>, <<"1", "-", "5">>, <<"+", "1", ".", "5">> }
AmountTexts ==
    {p \o b : p \in Prefixes, b \in SeqsUpTo(BodyChars, MaxBody)} \cup AmountWords
TargetCurrencies == {"USD", "CNY"}

\* the amounts handed to format_currency: None and whole numbers of halves
Scales == {1, 50, 1000, 50000, 1000000}
Amounts ==
    {None} \cup {Some([units |-> a * k, half |-> h]) :
                    a \in 0..MaxBase, k \in Scales, h \in {0, 1}}

HelperCalls ==
    {[fn |-> "detect_currency", amount_str |-> t] : t \in DetectTexts}
    \cup {[fn |-> "parse_currency_amount", amount_str |-> t, target_currency |-> c] :
            t \in AmountTexts, c \in TargetCurrencies}
    \cup {[fn |-> "format_currency", amount |-> a] : a \in Amounts}

InitCurrency ==
    /\ pc = "call"
    /\ args \in {Some(c) : c \in HelperCalls}
    /\ fn_ret = None
    /\ MatcherIdle
    /\ ScrapeIdle
    /\ MainIdle
    /\ StartIdle

NextCurrency ==
    \/ CallDetectCurrency /\ UNCHANGED <<matcherVars, scrapeVars, mainVars, startVars>>
    \/ \E forex_ok \in BOOLEAN :
          CallParseCurrencyAmount(forex_ok)
          /\ UNCHANGED <<matcherVars, scrapeVars, mainVars, startVars>>
    \/ CallFormatCurrency /\ UNCHANGED <<matcherVars, scrapeVars, mainVars, startVars>>

SpecCurrency == InitCurrency /\ [][NextCurrency]_vars

---------------------------------------------------------------------------
(* get_field_by_svg on the elements of a page (src/src/utils.py lines       *)
(* 399-442).  A path element is [d, stale, chain]: its d attribute          *)
(* (Optional text), whether reading it raises, and the elements above it    *)
(* from its parent up to the root, each [tag, spans]; a span is the         *)
(* Optional text of the element, None when reading it raises.               *)

\* line 409: svg_path[:30]
SignaturePrefixLen == 30
\* line 421
max_iterations == 10

\* s[:n]
Take_all(s, n) == s
Take(s, n) == SubSeq(s, 1, IF Len(s) < n THEN Len(s) ELSE n)

\* lines 405-414: the index of the first path element whose d attribute can be
\* read, is not empty and starts with the first 30 characters of the
\* signature; 0 when there is none
MatchingPath(paths, svg_path) ==
    LET matches(i) == /\ ~paths[i].stale
                      /\ Truthy(paths[i].d)
                      /\ StartsWith(paths[i].d[1], Take(svg_path, SignaturePrefixLen))
    IN IF \E i \in 1..Len(paths) : matches(i)
         THEN CHOOSE i \in 1..Len(paths) : matches(i) /\ \A j \in 1..(i - 1) : ~matches(j)
         ELSE 0

\* lines 427-435: the stripped text of the first span that can be read, is not
\* empty and does not start with 'svg'; None when there is none
RECURSIVE FieldFromSpans(_)
FieldFromSpans(spans) ==
    IF spans = <<>> THEN None
    ELSE IF /\ Head(spans) # None
            /\ Strip(Head(spans)[1]) # <<>>
            /\ ~StartsWith(Strip(Head(spans)[1]), <<"s", "v", "g">>)
      THEN Some(Strip(Head(spans)[1]))
    ELSE FieldFromSpans(Tail(spans))

\* lines 424-439: the loop with `current` the path element itself when
\* iterations is 0 and chain[iterations] afterwards; find_element('..') raises
\* on the root, which the except of line 440 turns into None
RECURSIVE WalkUp(_, _)
WalkUp(chain, iterations) ==
    IF ~(iterations < max_iterations) THEN None
    ELSE IF iterations > 0 /\ chain[iterations].tag = "li"
      THEN FieldFromSpans(chain[iterations].spans)
    ELSE IF iterations = Len(chain) THEN None
    ELSE WalkUp(chain, iterations + 1)

\* get_field_by_svg: [matching_path, value]
FieldBySvg(paths, svg_path) ==
    LET i == MatchingPath(paths, svg_path)
    IN [matching_path |-> i,
        value |-> IF i = 0 THEN None ELSE WalkUp(paths[i].chain, 0)]

\* get_field_by_svg(driver, svg_path) called on a page holding `paths`
CallGetFieldBySvg ==
    /\ pc = "call"
    /\ args[1].fn = "get_field_by_svg"
    /\ fn_ret' = Some(FieldBySvg(args[1].paths, args[1].svg_path))
    /\ pc' = "returned"
    /\ UNCHANGED args

\* SVG_PATHS['company_type'] (line 511) and a signature shorter than 30
CompanyTypeSignature ==
    << "M", "1", "4", ".", "4", ",", "6", "L", "1", "4", ",", "4",
       "H", "5", "v", "1", "7", "h", "2", "v", "-", "7", "h", "5",
       ".", "6", "l", "0", ".", "4", ",", "2", "h", "7", "V", "6",
       "H", "1", "4", ".", "4", "z" >>
Signatures == {CompanyTypeSignature, <<"M", "1", ",", "2", "z">>}

\* s with its k-th character replaced
Altered(s, k) == [s EXCEPT ![k] = "#"]

\* the d attributes of the model: the signature cut short, altered in one
\* place, extended, and an absent attribute
DForms ==
    {None}
    \cup {Some(SubSeq(CompanyTypeSignature, 1, n)) : n \in 0..Len(CompanyTypeSignature)}
    \cup {Some(Altered(CompanyTypeSignature, k)) : k \in 1..Len(CompanyTypeSignature)}
    \cup {Some(CompanyTypeSignature \o <<"z">>)}

Node(tag, spans) == [tag |-> tag, spans |-> spans]

\* a chain whose only li, if any, is `hops` above the path element, with the
\* root `height` above it
ChainWith(hops, height, spans) ==
    [h \in 1..height |->
        IF h = hops THEN Node("li", spans)
        ELSE IF h = height THEN Node("html", <<>>) ELSE Node("div", <<>>)]

SpanForms ==
    { <<>>, <<Some(<<>>)>>, <<Some(<<" ", "x", " ">>)>>, <<Some(<<"s", "v", "g", "x">>), Some(<<"x">>)>>,
      <<None, Some(<<"x">>)>>, <<Some(<<" ">>), Some(<<"x">>), Some(<<"y">>)>> }

PathElem(d, stale, chain) == [d |-> d, stale |-> stale, chain |-> chain]

\* the path elements of the model: every d attribute under a near list item,
\* and a matching d attribute under every chain
PathForms ==
    {PathElem(d, stale, ChainWith(1, 2, <<Some(<<"x">>)>>)) : d \in DForms, stale \in BOOLEAN}
    \cup {PathElem(Some(CompanyTypeSignature), FALSE, ChainWith(hops, height, sp)) :
            hops \in 0..MaxHops, height \in 1..(MaxHops + 1), sp \in SpanForms}

\* a second path element, which matches and has its field two hops up
SecondPath == PathElem(Some(CompanyTypeSignature), FALSE, ChainWith(2, 3, <<Some(<<"y">>)>>))

PathLists ==
    {<<>>} \cup {<<p>> : p \in PathForms} \cup {<<p, SecondPath>> : p \in PathForms}

SvgCalls ==
    {[fn |-> "get_field_by_svg", paths |-> ps, svg_path |-> sig] :
        ps \in PathLists, sig \in Signatures}

InitSvg ==
    /\ pc = "call"
    /\ args \in {Some(c) : c \in SvgCalls}
    /\ fn_ret = None
    /\ MatcherIdle
    /\ ScrapeIdle
    /\ MainIdle
    /\ StartIdle

NextSvg ==
    CallGetFieldBySvg /\ UNCHANGED <<matcherVars, scrapeVars, mainVars, startVars>>

SpecSvg == InitSvg /\ [][NextSvg]_vars

---------------------------------------------------------------------------
(* Claims about the matcher, checked under SpecMatch *)

\* analyze_search_results is past its scoring loop
Analyzed == pc \in {"prompt", "matched"}

\* the similarity of candidate i to the query
Sim(i) == GetStringSimilarity(search_name, results[i][1])
IsTop(i) == \A j \in 1..Len(results) : RatioGE(Sim(i), Sim(j))
\* the first candidate, in list order, that no candidate outscores
FirstTop == CHOOSE i \in 1..Len(results) : IsTop(i) /\ \A j \in 1..(i - 1) : ~IsTop(j)
TopPositive == results # <<>> /\ RatioGT(Sim(FirstTop), ZeroRatio)
TopAccepted == results # <<>> /\ RatioGE(Sim(FirstTop), NAME_SIMILARITY_THRESHOLD)

\* C1 as stated: for every non-empty candidate list the best match is the
\* candidate with the highest similarity, the first of them on a tie.
C1_AsStated ==
    Analyzed /\ results # <<>> => best_match = Some(results[FirstTop])

\* C1 amended: when some candidate scores above 0 the best match is the first
\* candidate with the highest similarity; when every candidate scores 0 there
\* is no best match and (None, None) is returned without a prompt.
C1_BestIsFirstTop ==
    Analyzed /\ results # <<>> =>
        IF TopPositive
          THEN best_match = Some(results[FirstTop]) /\ best_similarity = Sim(FirstTop)
          ELSE best_match = None /\ ret = None /\ pc = "matched" /\ inputs = 0

\* two different candidates share the top score and the first one was picked
C1_Witness ==
    /\ Analyzed
    /\ \E i, j \in 1..Len(results) :
          /\ i < j /\ IsTop(i) /\ IsTop(j) /\ results[i] # results[j]
          /\ TopPositive
          /\ best_match = Some(results[i])

\* C2: a candidate is returned with no operator input exactly when the top
\* similarity is >= 0.8, and it is then the best-scoring candidate.
C2_AutoAcceptIffThreshold ==
    Analyzed =>
        /\ (pc = "matched" /\ inputs = 0 /\ ret # None) <=> TopAccepted
        /\ TopAccepted => ret = Some(results[FirstTop]) /\ inputs = 0 /\ ~raised

\* a candidate scoring exactly 0.8 was returned with no input
C2_Witness ==
    /\ pc = "matched" /\ inputs = 0 /\ ret # None
    /\ Sim(FirstTop) = <<4, 5>>

SuppliedCandidates ==
    {<<Strip(dom.links[i].text), dom.links[i].href[1]>> :
        i \in {k \in 1..Len(dom.links) :
                 /\ k <= 5
                 /\ dom.links[k].span
                 /\ Strip(dom.links[k].text) # <<>>
                 /\ dom.links[k].href # None}}

\* C4: the returned pair is absent or one of the supplied candidates, and with
\* zero candidates it is absent and nothing was raised.
C4_ReturnsCandidateOrNone ==
    /\ ret = None \/ (dom.ok /\ ret[1] \in SuppliedCandidates)
    /\ Analyzed /\ (~dom.ok \/ SuppliedCandidates = {}) =>
          pc = "matched" /\ ret = None /\ ~raised

\* the operator picked a candidate other than the best match
C4_Witness ==
    /\ pc = "matched" /\ inputs > 0 /\ ret # None /\ ret # best_match
    /\ ret[1] \in SuppliedCandidates

---------------------------------------------------------------------------
(* Claims about scrape_company_data, checked under SpecScrape *)

\* what a field's own extractor produced: absent when it found nothing
Produced(v) == IF Truthy(v) THEN v ELSE None

\* the record the extractors of page pg produce, field by field
ExpectedRecord(pg) ==
    LET icon(k) == GetFieldBySvg(pg, k)
        label(l) == GetFieldByLabel(pg, l)
    IN  [ name |-> Strip(pg.name[1]),
          about |-> Produced(GetCompanyDescription(pg)),
          quantum_general |-> None, quantum_computing |-> None,
          bis_list |-> None, qedc_list |-> None,
          total_funding_cny |-> None, total_funding_usd |-> None,
          funding_info |-> Produced(GetFundingInfo(pg)),
          last_funding_type |-> Produced(icon("funding_type")),
          location |-> Produced(icon("location")),
          employee_count |-> Produced(icon("employees")),
          company_type |-> Produced(icon("company_type")),
          website |-> IF ~Truthy(icon("website")) THEN None
                      ELSE IF pg.website_link.found THEN pg.website_link.href
                      ELSE icon("website"),
          year_founded |-> IF Truthy(label("Founded Date"))
                             THEN FoundedYear(label("Founded Date")[1]) ELSE None,
          ranking |-> IF ~Truthy(icon("ranking")) THEN None
                      ELSE IF AllDigits(icon("ranking")[1])
                        THEN Some([int |-> DigitsValue(icon("ranking")[1])])
                        ELSE Some([str |-> icon("ranking")[1]]),
          acquisitions_count |-> GetNumericFieldByLabel(pg, "Acquisitions"),
          investments_count |-> GetNumericFieldByLabel(pg, "Investments"),
          exits_count |-> GetNumericFieldByLabel(pg, "Exits"),
          stock_symbol |-> Produced(label("Stock Symbol")),
          legal_name |-> Produced(label("Legal Name")),
          operating_status |-> Produced(label("Operating Status")),
          notes |-> None ]

\* C6: on a page whose name is extractable, whichever extractors find nothing,
\* scrape_company_data returns a record (no navigation having raised) in which
\* each failed field is None and every other field is what its extractor produced.
C6_FailedFieldsAbsentOthersKept ==
    pc = "scraped" /\ Truthy(GetCleanCompanyName(page)) /\ ~scrape_exc =>
        scrape_ret # None /\ scrape_ret[1] = ExpectedRecord(page)

\* a record came back although the description, the ranking icon, an exact-label
\* count and the founded date were not found, with the other fields kept
C6_Witness ==
    /\ pc = "scraped" /\ scrape_ret # None
    /\ page.description = None /\ scrape_ret[1].about = None
    /\ page.svg["ranking"] = None /\ scrape_ret[1].ranking = None
    /\ page.numeric["Exits"] = None /\ scrape_ret[1].exits_count = None
    /\ page.labels["Founded Date"] = None /\ scrape_ret[1].year_founded = None
    /\ scrape_ret[1].location = Some(<<"L">>)
    /\ scrape_ret[1].acquisitions_count = Some(7)
    /\ scrape_ret[1].legal_name = Some(<<"N">>)
    /\ scrape_ret[1].funding_info = Some(<<"f">>)

\* C7 as stated: once the browser has reached the '/company_financials' page,
\* scrape_company_data returns (a record or None) with the browser back on the
\* company page it started from.
C7_AsStated ==
    pc = "scraped" /\ navigated => current_url = saved_url

\* str.split()[-1]: the last whitespace-separated token of a text with one
RECURSIVE AfterLastSpace(_)
AfterLastSpace(s) ==
    IF \E i \in 1..Len(s) : s[i] = " " THEN AfterLastSpace(Tail(s)) ELSE s
LastToken(s) == AfterLastSpace(Strip(s))

\* C8 as stated: when the Founded Date text is non-empty and its last
\* whitespace-separated token is a year, year_founded is that year.
C8_AsStated ==
    pc \in {"to_financials", "financials", "scraped"} /\ company_data # None
    /\ Truthy(GetCleanCompanyName(page)) =>
        LET value == GetFieldByLabel(page, "Founded Date")
        IN  Truthy(value) /\ AllDigits(LastToken(value[1])) =>
                company_data[1].year_founded = Some(DigitsValue(LastToken(value[1])))

\* C19 as stated: the ranking of every record scrape_company_data returns is
\* None or an integer.
C19_AsStated ==
    scrape_ret # None =>
        \/ scrape_ret[1].ranking = None
        \/ DOMAIN scrape_ret[1].ranking[1] = {"int"}

---------------------------------------------------------------------------
(* Claims about the batch run, checked under Spec *)

\* how many finished companies ended with a scraped record
ScrapedCount == Cardinality({i \in 1..Len(outcomes) : outcomes[i].kind = "scraped"})

\* the rows a file holds; a file that does not exist holds none
FileRows(file) == IF file = None THEN <<>> ELSE file[1].rows

\* file holds one row per record of list, in order
HoldsRowsOf(file, list) ==
    /\ Len(FileRows(file)) = Len(list)
    /\ \A i \in 1..Len(list) : FileRows(file)[i] = CsvRow(list[i])

\* C5: scrape_company_data returns None when no non-empty name is extracted,
\* such a company adds no record to companies, and the files written afterwards
\* hold rows of scraped records only.
C5_NoNameNoRecordNoRow ==
    /\ pc = "scraped" /\ ~Truthy(GetCleanCompanyName(page)) => scrape_ret = None
    /\ Len(companies) = ScrapedCount
    /\ \A i \in 1..Len(companies) : companies[i].name # <<>>
    /\ final_file # None => HoldsRowsOf(final_file, companies)
    /\ progress_file # None /\ progress_file # Some(StaleFile) =>
          \E n \in 1..Len(companies) : HoldsRowsOf(progress_file, SubSeq(companies, 1, n))

\* the second company had no extractable name, and both files hold only the
\* row of the first
C5_Witness ==
    /\ pc = "closed"
    /\ Len(outcomes) = 2
    /\ outcomes[1].kind = "scraped" /\ outcomes[2].kind = "scrape_none"
    /\ ~Truthy(GetCleanCompanyName(page)) /\ ~scrape_exc
    /\ Len(FileRows(final_file)) = 1
    /\ Len(FileRows(progress_file)) = 1

\* C9: the names of the list are handed to search_company one by one in list
\* order, each once, every taken name has ended before the next is taken, and
\* the loop is left only when every name has been taken, however they ended.
C9_EveryNameAttemptedInOrder ==
    /\ attempted = SubSeq(company_list, 1, idx)
    /\ Len(outcomes) = (IF pc \in {"loop", "save", "finally", "closed", "read_list"}
                          THEN idx ELSE idx - 1)
    /\ pc \in {"finally", "closed"} => attempted = company_list

\* the first company ended in a navigation failure, the second in an absent
\* scrape result, and both were attempted
C9_Witness ==
    /\ pc = "closed"
    /\ Len(company_list) = 2 /\ attempted = company_list
    /\ outcomes[1].kind = "nav_error" /\ outcomes[2].kind = "scrape_none"

FundingElementForms ==
    {<<>>} \cup {<<Elem(title, text)>> :
                    title \in {None, Some(<<>>), Some(<<"$", "1", ".", "5", "M">>)},
                    text \in { <<>>, <<"$", "5">>, <<" ", "C", "N", "¥", "1", "K">>, <<"¥", "5">>,
                               <<"$", "0">>, <<"n", "/", "a">>, <<"n", "a", "n">>, <<"5">> }}

\* the funding columns of a file's rows
FundingCells(file) ==
    {FileRows(file)[i][c] : i \in 1..Len(FileRows(file)), c \in {4, 5}}

---------------------------------------------------------------------------
(* Claims about the start of main, checked under SpecMain *)

\* C11: while a credential is unset or empty, main has not gone past its
\* credential check: no browser was started, no page loaded, no company
\* searched or scraped, no record collected and no CSV file written.
C11_NoCredentialsNothingStarted ==
    ~Truthy(email) \/ ~Truthy(password) =>
        /\ pc \in {"start", "returned"}
        /\ driver = "none"
        /\ ~loaded
        /\ attempted = <<>> /\ outcomes = <<>>
        /\ company_data = None /\ scrape_ret = None
        /\ companies = <<>>
        /\ final_file = None
        /\ progress_file \in {None, Some(StaleFile)}

\* main has returned at line 32 with an e-mail set and an empty password
C11_Witness ==
    /\ pc = "returned"
    /\ email = Some(<<"e">>) /\ password = Some(<<>>)
    /\ driver = "none"

---------------------------------------------------------------------------
(* Claims about the currency helpers, checked under SpecCurrency *)

Returned(fn) == pc = "returned" /\ args[1].fn = fn

\* s begins with p, character by character
Begins(s, p) == Len(p) <= Len(s) /\ \A k \in 1..Len(p) : s[k] = p[k]

\* s without its first n characters
Drop(s, n) == SubSeq(s, n + 1, Len(s))

SymbolTable == {CURRENCY_SYMBOLS[i] : i \in 1..Len(CURRENCY_SYMBOLS)}

\* C12: a text that begins with a symbol of the table gets that symbol's own
\* code from detect_currency and loses exactly that symbol ('CN¥...' is CNY,
\* never JPY); a text that begins with no symbol of the table is USD, unchanged.
C12_OwnCodeWholeSymbolStripped ==
    Returned("detect_currency") =>
        LET s == Strip(args[1].amount_str) IN
        /\ \A e \in SymbolTable :
              Begins(s, e[1]) => fn_ret[1] = <<e[2], Strip(Drop(s, Len(e[1])))>>
        /\ (\A e \in SymbolTable : ~Begins(s, e[1])) => fn_ret[1] = <<"USD", s>>

\* 'CN¥ 1' was detected as CNY with the three characters of the symbol gone
C12_Witness ==
    /\ Returned("detect_currency")
    /\ args[1].amount_str = <<"C", "N", "¥", "1">>
    /\ fn_ret[1] = <<"CNY", <<"1">> >>

\* what parse_currency_amount is left with once the currency symbol and the
\* thousands separators are gone
Residue == Strip(RemoveChar(DetectCurrency(args[1].amount_str)[2], ","))

\* the call got past the empty and sentinel test of lines 72-73
PastSentinels ==
    args[1].amount_str # <<>> /\ Lower(args[1].amount_str) \notin SentinelTexts

MagnitudeOf(c) == CASE c = "K" -> 1000 [] c = "M" -> 1000000 [] c = "B" -> 1000000000

\* C13 as stated: K, M or B multiplies only as the last character of the
\* residue, where that one character is removed and the rest converted and
\* multiplied; a K, M or B anywhere else makes the result absent.
C13_AsStated ==
    Returned("parse_currency_amount") /\ PastSentinels =>
        LET r == Residue
            front == Strip(SubSeq(r, 1, Len(r) - 1))
            v == fn_ret[1].value
        IN /\ (\E i \in 1..(Len(r) - 1) : r[i] \in {"K", "M", "B"}) => v = None
           /\ ( /\ r # <<>> /\ r[Len(r)] \in {"K", "M", "B"}
                /\ \A i \in 1..(Len(r) - 1) : r[i] \notin {"K", "M", "B"}
                /\ FloatOf(front) # None
                /\ fn_ret[1].lookup # "failed" ) =>
                    /\ v # None
                    /\ v[1].number = FloatOf(front)[1]
                    /\ v[1].multiplier = MagnitudeOf(r[Len(r)])

\* C14: a value returned by parse_currency_amount is denominated in the target
\* currency: with source equal to target no lookup is made and the parsed
\* number comes back as it is, otherwise the lookup succeeded and the value is
\* the converted one; a failed lookup gives None.
C14_ValueInTargetCurrency ==
    Returned("parse_currency_amount") =>
        LET r == fn_ret[1]
            source == DetectCurrency(args[1].amount_str)[1]
            target == args[1].target_currency
        IN /\ source = target => r.lookup = "none"
           /\ r.lookup = "failed" => r.value = None
           /\ r.value # None =>
                 /\ r.value[1].currency = target
                 /\ r.value[1].converted = (source # target)
                 /\ r.lookup = (IF source = target THEN "none" ELSE "ok")

\* the lookup for 'CN¥1' into USD failed and nothing was returned
C14_Witness ==
    /\ Returned("parse_currency_amount")
    /\ args[1].amount_str = <<"C", "N", "¥", "1">> /\ args[1].target_currency = "USD"
    /\ fn_ret[1].lookup = "failed"
    /\ fn_ret[1].value = None

\* the characters a plain number is written with
NumericChars == {"0", "1", "2", "3", "4", "5", "6", "7", "8", "9", ".", "+", "-"}

\* the residue without the one magnitude suffix it ends in, if it ends in one
Unsuffixed(r) ==
    IF r # <<>> /\ r[Len(r)] \in {"K", "M", "B"} THEN Strip(SubSeq(r, 1, Len(r) - 1)) ELSE r

\* C15 as stated: parse_currency_amount raises nothing, and returns None for
\* the empty text, for the sentinels in any letter case, and for every text
\* that keeps a non-numeric character once symbol, separators and magnitude
\* suffix are stripped.
C15_AsStated ==
    Returned("parse_currency_amount") =>
        /\ ~fn_ret[1].raised
        /\ ~PastSentinels => fn_ret[1].value = None
        /\ (PastSentinels /\ \E i \in 1..Len(Unsuffixed(Residue)) :
                                  Unsuffixed(Residue)[i] \notin NumericChars)
              => fn_ret[1].value = None

\* the text of a number with one decimal place before the suffix c
OneDecimalWith(text, c) ==
    /\ Len(text) >= 4
    /\ text[Len(text)] = c
    /\ IsDigit(text[Len(text) - 1])
    /\ text[Len(text) - 2] = "."
    /\ AllDigits(SubSeq(text, 1, Len(text) - 3))

\* the tenths such a text shows
ShownTenths(text) ==
    10 * DigitsValue(SubSeq(text, 1, Len(text) - 3)) + DigitValue(text[Len(text) - 1])

\* tenths is the quotient H / D rounded to an integer, either way on a tie
RoundedQuotient(tenths, H, D) ==
    \/ tenths = H \div D /\ 2 * (H % D) <= D
    \/ tenths = (H \div D) + 1 /\ 2 * (H % D) >= D

\* the suffix and the tenth of the multiplier halved that go with a value
SuffixOf(units) ==
    IF units >= 1000000000 THEN <<"B", 200000000>>
    ELSE IF units >= 1000000 THEN <<"M", 200000>> ELSE <<"K", 200>>

\* C16: format_currency gives '' for None, the value rounded to an integer and
\* no suffix below 1,000, and from 1,000 on the value divided by 1e3, 1e6 or
\* 1e9 with exactly one decimal place, followed by K, M or B by its range.
C16_ShorthandByRange ==
    Returned("format_currency") =>
        LET a == args[1].amount
            text == fn_ret[1]
        IN IF a = None THEN text = <<>>
           ELSE IF a[1].units < 1000
             THEN AllDigits(text) /\ RoundedQuotient(DigitsValue(text), Halves(a[1]), 2)
           ELSE /\ OneDecimalWith(text, SuffixOf(a[1].units)[1])
                /\ RoundedQuotient(ShownTenths(text), Halves(a[1]), SuffixOf(a[1].units)[2])

\* 1,150,000 was rendered as 1.1M: its quotient 1.15 is held as a double
\* just below the tie
C16_Witness ==
    /\ Returned("format_currency")
    /\ args[1].amount = Some([units |-> 1150000, half |-> 0])
    /\ fn_ret[1] = <<"1", ".", "1", "M">>

---------------------------------------------------------------------------
(* Claims about get_field_by_svg, checked under SpecSvg *)

\* the first 30 characters of a signature, or all of a shorter one
First30(sig) == [k \in 1..(IF Len(sig) < 30 THEN Len(sig) ELSE 30) |-> sig[k]]

\* the path element i of the call can be read and its d attribute begins
\* with the first 30 characters of the signature
PrefixAgrees(i) ==
    /\ ~args[1].paths[i].stale
    /\ args[1].paths[i].d # None
    /\ args[1].paths[i].d[1] # <<>>
    /\ Begins(args[1].paths[i].d[1], First30(args[1].svg_path))

\* C17: get_field_by_svg matches a path element exactly when its d attribute
\* starts with the first 30 characters of the signature: it takes the first
\* such element of the page, whatever follows the 30 characters, and takes
\* none when every d attribute differs within them.
C17_MatchIffFirst30Agree ==
    Returned("get_field_by_svg") =>
        LET m == fn_ret[1].matching_path IN
        /\ m # 0 => PrefixAgrees(m) /\ \A j \in 1..(m - 1) : ~PrefixAgrees(j)
        /\ m = 0 => \A j \in 1..Len(args[1].paths) : ~PrefixAgrees(j)

\* a d attribute that differs from the signature at character 31 only was
\* matched, ahead of the second element
C17_Witness ==
    /\ Returned("get_field_by_svg")
    /\ args[1].svg_path = CompanyTypeSignature
    /\ Len(args[1].paths) = 2
    /\ args[1].paths[1].d = Some(Altered(CompanyTypeSignature, 31))
    /\ fn_ret[1].matching_path = 1
    /\ fn_ret[1].value = Some(<<"x">>)

\* how many hops above the matched path element its nearest li is; 0 when
\* there is none
NearestLi(chain) ==
    IF \E h \in 1..Len(chain) : chain[h].tag = "li"
      THEN CHOOSE h \in 1..Len(chain) :
              chain[h].tag = "li" /\ \A g \in 1..(h - 1) : chain[g].tag # "li"
      ELSE 0

\* C18 as stated: the field is read from the nearest list item above the
\* matched path element whenever that is at most 10 hops above it, and is
\* absent when the nearest list item is further away or there is none.
C18_AsStated ==
    Returned("get_field_by_svg") /\ fn_ret[1].matching_path # 0 =>
        LET chain == args[1].paths[fn_ret[1].matching_path].chain
            hops == NearestLi(chain)
        IN IF hops # 0 /\ hops <= 10
             THEN fn_ret[1].value = FieldFromSpans(chain[hops].spans)
             ELSE fn_ret[1].value = None

====
